---------------------------- MODULE Spec2Model ----------------------------
(***************************************************************************)
(* A model of the IR interpreter of src/src/ir/interp.rs: the runtime      *)
(* Value, the calculator, Memory, GlobalMap, RegisterMap, StackFrame and   *)
(* the State with its new / step / run loop.                               *)
(*                                                                         *)
(* A Rust panic (expect, unwrap, assert!, todo!, panic!, an out-of-bounds  *)
(* index, an arithmetic overflow under overflow checks) ends the run with  *)
(* status "abort"; a structured InterpreterError ends it with status       *)
(* "error".                                                                *)
(***************************************************************************)
EXTENDS Integers, Sequences, FiniteSets, TLC

VARIABLES
    ir,               \* State.ir: the translation unit, [decls |-> record]
    args,             \* the Vec<Value> handed to interp / State::new
    overflow_checks,  \* build profile: TRUE when u128 overflow panics
    status,           \* "init" | "running" | "value" | "error" | "abort"
    result,           \* the value or the InterpreterError that run returned
    global_map,       \* State.global_map
    stack_frame,      \* State.stack_frame
    stack,            \* State.stack
    memory            \* State.memory.inner, block bid is memory[bid + 1]

vars == <<ir, args, overflow_checks, status, result, global_map, stack_frame,
          stack, memory>>

-----------------------------------------------------------------------------
(* Bounds of the checked inputs *)

\* Int operands take the values 0..MaxSmall and the width-8 maximum
MaxSmall == 3

\* the recursive program is entered with an argument in 0..MaxRec
MaxRec == 2

-----------------------------------------------------------------------------
(* Value *)

\* Option::None / Option::Some for the optional parts of the IR and of Value
None == [some |-> FALSE]

Some(x) == [some |-> TRUE, v |-> x]

\* the outcome of a panic
Abort == [tag |-> "Abort"]

\* the outcome Err(e) of a Result
Err(e) == [tag |-> "Err", err |-> e]

\* the outcome Err(e) of a method of State, with the State it leaves behind
ErrIn(s, e) == [tag |-> "Err", err |-> e, state |-> s]

IsAbort(r) == r = Abort

IsErr(r) == r.tag = "Err"

Failed(r) == IsAbort(r) \/ IsErr(r)

VUnit == [tag |-> "Unit"]

\* An Int's u128 is kept as its residue of least magnitude modulo 2^128:
\* v for v < 2^127 and v - 2^128 above, exact while |v| < 2^127.
VInt(value, width, is_signed) ==
    [tag |-> "Int", value |-> value, width |-> width, is_signed |-> is_signed]

VFloat(value, width) == [tag |-> "Float", value |-> value, width |-> width]

VPointer(bid, offset) == [tag |-> "Pointer", bid |-> bid, offset |-> offset]

get_int(v) == IF v.tag = "Int" THEN Some(v) ELSE None

get_pointer(v) == IF v.tag = "Pointer" THEN Some(v) ELSE None

nullptr == VPointer(None, 0)

\* Dtype of the IR
DUnit == [tag |-> "Unit"]

DInt(width, is_signed) == [tag |-> "Int", width |-> width, is_signed |-> is_signed]

DFloat(width) == [tag |-> "Float", width |-> width]

DPointer == [tag |-> "Pointer"]

DFunction == [tag |-> "Function"]

default_from_dtype(dtype) ==
    CASE dtype.tag = "Unit" -> VUnit
      [] dtype.tag = "Int" -> VInt(0, dtype.width, dtype.is_signed)
      [] dtype.tag = "Float" -> VFloat(0, dtype.width)
      [] dtype.tag = "Pointer" -> nullptr
      [] dtype.tag = "Function" -> Abort

\* InterpreterError
Unreachable == [kind |-> "Unreachable"]

NoMainFunction == [kind |-> "NoMainFunction"]

NoFunctionDefinition(func_name) ==
    [kind |-> "NoFunctionDefinition", func_name |-> func_name]

Misc(func_name, pc, msg) ==
    [kind |-> "Misc", func_name |-> func_name, pc |-> pc, msg |-> msg]

\* Pc
PcNew(bid) == [bid |-> bid, iid |-> 0]

increment(pc) == [pc EXCEPT !.iid = @ + 1]

-----------------------------------------------------------------------------
(* RegisterMap and RegisterId *)

RidArg(bid, aid) == [kind |-> "arg", bid |-> bid, id |-> aid]

RidTemp(bid, iid) == [kind |-> "temp", bid |-> bid, id |-> iid]

RidLocal(id) == [kind |-> "local", name |-> "", id |-> id]

EmptyMap == [k \in {} |-> VUnit]

\* HashMap::insert
MapInsert(m, k, v) == [x \in DOMAIN m \cup {k} |-> IF x = k THEN v ELSE m[x]]

read(registers, rid) == IF rid \in DOMAIN registers THEN registers[rid] ELSE Abort

write(registers, rid, value) == MapInsert(registers, rid, value)

-----------------------------------------------------------------------------
(* calculator *)

\* u128 comparison on the residues
ULess(a, b) == IF (a < 0) = (b < 0) THEN a < b ELSE b < 0

\* whether the u128 operation leaves 0 .. 2^128 - 1
AddOverflows(a, b) ==
    \/ a < 0 /\ b < 0
    \/ (a < 0) # (b < 0) /\ a + b >= 0

SubOverflows(a, b) == ULess(a, b)

MulOverflows(a, b) ==
    \/ a < 0 /\ (b < 0 \/ b >= 2)
    \/ b < 0 /\ a >= 2

\* a u128 operation: a panic under overflow checks, the wrapped value without
Checked(overflows, value, w, s, checks) ==
    IF overflows /\ checks THEN Abort ELSE VInt(value, w, s)

\* a relational arm with the operands' signedness but the width of a C int
relational_int(holds, s) == VInt(IF holds THEN 1 ELSE 0, 32, s)

\* a relational arm: let result = if .. { 1 } else { 0 }; Value::int(result, 1, lhs_s)
relational(holds, s) == VInt(IF holds THEN 1 ELSE 0, 1, s)

BinaryOperators ==
    {"Plus", "Minus", "Multiply", "Equals", "NotEquals", "Less",
     "GreaterOrEqual", "Divide"}

calculate_binary_operator_expression(op, lhs, rhs, checks) ==
    IF lhs.tag = "Int" /\ rhs.tag = "Int"
    THEN IF lhs.width # rhs.width \/ lhs.is_signed # rhs.is_signed
         THEN Abort
         ELSE LET l == lhs.value
                  r == rhs.value
                  w == lhs.width
                  s == lhs.is_signed
              IN  CASE op = "Plus" ->
                         Checked(AddOverflows(l, r), l + r, w, s, checks)
                    [] op = "Minus" ->
                         Checked(SubOverflows(l, r), l - r, w, s, checks)
                    [] op = "Multiply" ->
                         Checked(MulOverflows(l, r), l * r, w, s, checks)
                    [] op = "Equals" -> relational(l = r, s)
                    [] op = "NotEquals" -> relational(l # r, s)
                    [] op = "Less" -> relational(ULess(l, r), s)
                    [] op = "GreaterOrEqual" -> relational(~ULess(l, r), s)
                    [] OTHER -> Abort
    ELSE Abort

UnaryOperators == {"Plus", "Minus", "Negate", "Complement"}

calculate_unary_operator_expression(op, operand) ==
    IF operand.tag = "Int"
    THEN CASE op = "Plus" -> operand
           [] op = "Minus" ->
                IF ~operand.is_signed
                THEN Abort
                ELSE VInt(-operand.value, operand.width, operand.is_signed)
           [] op = "Negate" ->
                IF operand.width # 1
                THEN Abort
                ELSE VInt(IF operand.value = 0 THEN 1 ELSE 0, operand.width,
                         operand.is_signed)
           [] OTHER -> Abort
    ELSE Abort

calculate_typecast(value, dtype) ==
    CASE value.tag = "Int" /\ dtype.tag = "Int" ->
           VInt(value.value, dtype.width, dtype.is_signed)
      [] value.tag = "Float" /\ dtype.tag = "Float" ->
           VFloat(value.value, dtype.width)
      [] OTHER -> Abort

-----------------------------------------------------------------------------
(* The IR consumed by the interpreter (crate::ir) *)

CUnit == [tag |-> "Unit"]

CInt(value, width, is_signed) ==
    [tag |-> "Int", value |-> value, width |-> width, is_signed |-> is_signed]

CFloat(value, width) == [tag |-> "Float", value |-> value, width |-> width]

CGlobalVariable(name, dtype) ==
    [tag |-> "GlobalVariable", name |-> name, dtype |-> dtype]

OpConst(c) == [kind |-> "Constant", c |-> c]

OpReg(rid, dtype) == [kind |-> "Register", rid |-> rid, dtype |-> dtype]

\* Constant::dtype
ConstantDtype(c) ==
    CASE c.tag = "Unit" -> DUnit
      [] c.tag = "Int" -> DInt(c.width, c.is_signed)
      [] c.tag = "Float" -> DFloat(c.width)
      [] c.tag = "GlobalVariable" -> DPointer

\* Operand::dtype
OperandDtype(o) == IF o.kind = "Constant" THEN ConstantDtype(o.c) ELSE o.dtype

\* Dtype::is_compatible
is_compatible(a, d) == a = d

\* Declaration::dtype
DeclDtype(decl) == IF decl.kind = "Variable" THEN decl.dtype ELSE DFunction

\* Declaration::get_function
get_function(decl) == IF decl.kind = "Function" THEN Some(decl) ELSE None

\* the orders in which iterating ir.decls can visit the declarations
DeclOrders(decls) ==
    LET names == DOMAIN decls
        n == Cardinality(names)
    IN  {o \in [1..n -> names] : \A i, j \in 1..n : i # j => o[i] # o[j]}

-----------------------------------------------------------------------------
(* Memory *)

alloc(mem, dtype) ==
    LET memory_block ==
            IF dtype.tag = "Function" THEN <<>> ELSE <<default_from_dtype(dtype)>>
    IN  [memory |-> Append(mem, memory_block), bid |-> Len(mem)]

InBounds(mem, bid, offset) ==
    bid + 1 \in DOMAIN mem /\ offset + 1 \in DOMAIN mem[bid + 1]

load(mem, bid, offset) ==
    IF InBounds(mem, bid, offset) THEN mem[bid + 1][offset + 1] ELSE Abort

\* a store that checks the index and writes nothing
store_dropped(mem, bid, offset, value) ==
    IF InBounds(mem, bid, offset) THEN [tag |-> "Memory", inner |-> mem] ELSE Abort

\* the Memory after the store, or the panic of the index
store(mem, bid, offset, value) ==
    IF InBounds(mem, bid, offset)
    THEN [tag |-> "Memory", inner |-> [mem EXCEPT ![bid + 1][offset + 1] = value]]
    ELSE Abort

-----------------------------------------------------------------------------
(* GlobalMap *)

GlobalMapDefault == [var_to_bid |-> EmptyMap, bid_to_var |-> EmptyMap]

\* an insert that records the name's block id and not the block id's name
insert_one_way(gm, var, bid) ==
    IF var \in DOMAIN gm.var_to_bid \/ bid \in DOMAIN gm.bid_to_var
    THEN Abort
    ELSE [var_to_bid |-> MapInsert(gm.var_to_bid, var, bid),
          bid_to_var |-> gm.bid_to_var]

insert(gm, var, bid) ==
    IF var \in DOMAIN gm.var_to_bid \/ bid \in DOMAIN gm.bid_to_var
    THEN Abort
    ELSE [var_to_bid |-> MapInsert(gm.var_to_bid, var, bid),
          bid_to_var |-> MapInsert(gm.bid_to_var, bid, var)]

get_bid(gm, var) ==
    IF var \in DOMAIN gm.var_to_bid THEN Some(gm.var_to_bid[var]) ELSE None

get_var(gm, bid) ==
    IF bid \in DOMAIN gm.bid_to_var THEN Some(gm.bid_to_var[bid]) ELSE None

-----------------------------------------------------------------------------
(* StackFrame and State *)

\* StackFrame::new; func_def is FuncDef(func_name)
StackFrameNew(bid, func_name) ==
    [pc |-> PcNew(bid), registers |-> EmptyMap, func_name |-> func_name]

\* the FunctionDefinition a frame of function func_name refers to
FuncDef(func_name) == ir.decls[func_name].definition.v

MkState(gm, frame, stk, mem) ==
    [tag |-> "State", global_map |-> gm, stack_frame |-> frame, stack |-> stk,
     memory |-> mem]

CurState == MkState(global_map, stack_frame, stack, memory)

interp_constant(s, value) ==
    IF value.tag = "GlobalVariable"
    THEN LET bid == get_bid(s.global_map, value.name)
         IN  IF bid.some THEN VPointer(Some(bid.v), 0) ELSE Abort
    ELSE value

interp_operand(s, operand) ==
    IF operand.kind = "Constant"
    THEN interp_constant(s, operand.c)
    ELSE read(s.stack_frame.registers, operand.rid)

interp_ptr(s, pointer) ==
    LET p == get_pointer(pointer)
    IN  IF ~p.some
        THEN ErrIn(s, Misc(s.stack_frame.func_name, s.stack_frame.pc,
                         "Accessing memory with non-pointer"))
        ELSE IF ~p.v.bid.some
        THEN ErrIn(s, Misc(s.stack_frame.func_name, s.stack_frame.pc,
                         "Accessing memory with constant pointer"))
        ELSE [tag |-> "Ptr", bid |-> p.v.bid.v, offset |-> p.v.offset]

RECURSIVE write_args_from(_, _, _, _)
write_args_from(registers, bid_init, values, i) ==
    IF i > Len(values)
    THEN registers
    ELSE write_args_from(write(registers, RidArg(bid_init, i - 1), values[i]),
                         bid_init, values, i + 1)

write_args(s, bid_init, values) ==
    [s EXCEPT !.stack_frame.registers = write_args_from(@, bid_init, values, 1)]

\* an allocation of locals that hands every activation the blocks that follow
\* those of the globals
RECURSIVE alloc_locals_static_from(_, _, _)
alloc_locals_static_from(s, allocations, i) ==
    IF i > Len(allocations)
    THEN s
    ELSE LET a == alloc(s.memory, allocations[i])
             ptr == VPointer(Some(Cardinality(DOMAIN s.global_map.bid_to_var) + i - 1), 0)
         IN  alloc_locals_static_from(
                 [s EXCEPT !.memory = a.memory,
                           !.stack_frame.registers = write(@, RidLocal(i - 1), ptr)],
                 allocations, i + 1)

RECURSIVE alloc_locals_from(_, _, _)
alloc_locals_from(s, allocations, i) ==
    IF i > Len(allocations)
    THEN s
    ELSE LET a == alloc(s.memory, allocations[i])
             ptr == VPointer(Some(a.bid), 0)
         IN  alloc_locals_from(
                 [s EXCEPT !.memory = a.memory,
                           !.stack_frame.registers = write(@, RidLocal(i - 1), ptr)],
                 allocations, i + 1)

alloc_local_variables(s) ==
    alloc_locals_from(s, FuncDef(s.stack_frame.func_name).allocations, 1)

\* memory.store(bid, offset, value) on the state
stored_state(s, m) == IF IsAbort(m) THEN Abort ELSE [s EXCEPT !.memory = m.inner]

store_value(s, bid, offset, value) ==
    IF IsAbort(value)
    THEN Abort
    ELSE stored_state(s, store(s.memory, bid, offset, value))

\* the initialisation of a declaration's block: the match on decl
init_global(s, decl, bid) ==
    IF decl.kind = "Variable"
    THEN IF decl.dtype.tag = "Function"
         THEN Abort
         ELSE IF decl.initializer.some
         THEN store_value(s, bid, 0, interp_constant(s, decl.initializer.v))
         ELSE s
    ELSE s

\* global_map.insert(name, bid)?, then the initialisation
register_global(s, name, a, gm) ==
    IF IsAbort(gm)
    THEN Abort
    ELSE init_global([s EXCEPT !.memory = a.memory, !.global_map = gm],
                     ir.decls[name], a.bid)

\* one iteration of the loop of alloc_global_variables
alloc_global_variable(s, name, a) ==
    register_global(s, name, a, insert(s.global_map, name, a.bid))

RECURSIVE alloc_globals_from(_, _, _)
alloc_globals_from(s, order, i) ==
    IF IsAbort(s) \/ i > Len(order)
    THEN s
    ELSE alloc_globals_from(
             alloc_global_variable(s, order[i],
                                   alloc(s.memory, DeclDtype(ir.decls[order[i]]))),
             order, i + 1)

\* order: the order in which the loop over ir.decls visits the names
alloc_global_variables(s, order) == alloc_globals_from(s, order, 1)

\* the end of State::new: main's arguments and locals
init_main(s, bid_init, values) ==
    IF IsAbort(s)
    THEN Abort
    ELSE alloc_local_variables(write_args(s, bid_init, values))

\* a State::new that looks for main's body before it asks whether main is a
\* function
StateNew_body_first(values, order) ==
    LET func_name == "main"
    IN  IF func_name \notin DOMAIN ir.decls
        THEN Err(NoMainFunction)
        ELSE IF ~get_function(ir.decls[func_name]).some
        THEN Err(NoFunctionDefinition(func_name))
        ELSE IF ~ir.decls[func_name].definition.some
        THEN Err(NoFunctionDefinition(func_name))
        ELSE init_main(
                 alloc_global_variables(
                     MkState(GlobalMapDefault,
                             StackFrameNew(FuncDef(func_name).bid_init, func_name),
                             <<>>, <<>>),
                     order),
                 FuncDef(func_name).bid_init, values)

\* State::new
StateNew(values, order) ==
    LET func_name == "main"
    IN  IF func_name \notin DOMAIN ir.decls
        THEN Err(NoMainFunction)
        ELSE IF ~get_function(ir.decls[func_name]).some
        THEN Err(NoMainFunction)
        ELSE IF ~ir.decls[func_name].definition.some
        THEN Err(NoFunctionDefinition(func_name))
        ELSE init_main(
                 alloc_global_variables(
                     MkState(GlobalMapDefault,
                             StackFrameNew(FuncDef(func_name).bid_init, func_name),
                             <<>>, <<>>),
                     order),
                 FuncDef(func_name).bid_init, values)

\* registers.inner.insert(rid, v).unwrap(): a panic unless rid was written before
insert_unwrap(s, rid, v) ==
    IF IsAbort(v) \/ rid \notin DOMAIN s.stack_frame.registers
    THEN Abort
    ELSE [s EXCEPT !.stack_frame.registers = MapInsert(@, rid, v)]

\* the loop of interp_jump that binds the arguments one after the other
RECURSIVE bind_jump_args(_, _, _, _)
bind_jump_args(s, bid, operands, i) ==
    IF IsAbort(s) \/ i > Len(operands)
    THEN s
    ELSE bind_jump_args(
             insert_unwrap(s, RidArg(bid, i - 1), interp_operand(s, operands[i])),
             bid, operands, i + 1)

\* the value Ok(v) of a step, v an Option<Value>
Ok(s, v) == [tag |-> "Ok", state |-> s, value |-> v]

\* the end of interp_jump: the program counter moves to the target block
set_pc(s, bid) ==
    IF IsAbort(s) THEN Abort ELSE Ok([s EXCEPT !.stack_frame.pc = PcNew(bid)], None)

interp_jump(s, arg) ==
    LET blocks == FuncDef(s.stack_frame.func_name).blocks
    IN  IF arg.bid \notin DOMAIN blocks
        THEN Abort
        ELSE IF Len(arg.args) # Len(blocks[arg.bid].phinodes)
        THEN Abort
        ELSE IF \E i \in DOMAIN arg.args :
                   ~is_compatible(OperandDtype(arg.args[i]),
                                  blocks[arg.bid].phinodes[i])
        THEN Abort
        ELSE set_pc(bind_jump_args(s, arg.bid, arg.args, 1), arg.bid)

\* a find that keeps the last case whose constant equals value
find_case_last(s, value, cases, i) ==
    LET equal == {j \in i..Len(cases) : value = interp_constant(s, cases[j][1])}
    IN  IF equal = {}
        THEN None
        ELSE Some(cases[CHOOSE j \in equal : \A k \in equal : k <= j][2])

\* cases.iter().find(..): the first case whose constant equals value
RECURSIVE find_case(_, _, _, _)
find_case(s, value, cases, i) ==
    IF i > Len(cases)
    THEN None
    ELSE IF IsAbort(interp_constant(s, cases[i][1]))
    THEN Abort
    ELSE IF value = interp_constant(s, cases[i][1])
    THEN Some(cases[i][2])
    ELSE find_case(s, value, cases, i + 1)

\* the jump of a Switch to the case found, or to default
jump_found(s, found, default) ==
    IF IsAbort(found)
    THEN Abort
    ELSE interp_jump(s, IF found.some THEN found.v ELSE default)

\* the jump of a ConditionalJump on the value of its condition
jump_on(s, value, arg_then, arg_else) ==
    IF IsAbort(value)
    THEN Abort
    ELSE IF ~get_int(value).some
    THEN Abort
    ELSE IF value.width # 1
    THEN Abort
    ELSE interp_jump(s, IF value.value = 1 THEN arg_then ELSE arg_else)

switch_on(s, value, block_exit) ==
    IF IsAbort(value)
    THEN Abort
    ELSE jump_found(s, find_case(s, value, block_exit.cases, 1), block_exit.default)

return_value(s, value) == IF IsAbort(value) THEN Abort ELSE Ok(s, Some(value))

\* a block exit that takes Unreachable for a return of Unit
interp_block_exit_unit(s, block_exit) ==
    CASE block_exit.kind = "Jump" -> interp_jump(s, block_exit.arg)
      [] block_exit.kind = "ConditionalJump" ->
           jump_on(s, interp_operand(s, block_exit.condition),
                   block_exit.arg_then, block_exit.arg_else)
      [] block_exit.kind = "Switch" ->
           switch_on(s, interp_operand(s, block_exit.value), block_exit)
      [] block_exit.kind = "Return" ->
           return_value(s, interp_operand(s, block_exit.value))
      [] block_exit.kind = "Unreachable" -> Ok(s, Some(VUnit))

interp_block_exit(s, block_exit) ==
    CASE block_exit.kind = "Jump" -> interp_jump(s, block_exit.arg)
      [] block_exit.kind = "ConditionalJump" ->
           jump_on(s, interp_operand(s, block_exit.condition),
                   block_exit.arg_then, block_exit.arg_else)
      [] block_exit.kind = "Switch" ->
           switch_on(s, interp_operand(s, block_exit.value), block_exit)
      [] block_exit.kind = "Return" ->
           return_value(s, interp_operand(s, block_exit.value))
      [] block_exit.kind = "Unreachable" -> ErrIn(s, Unreachable)

\* interp_args: the signature check, then the arguments evaluated in order
interp_args(s, signature, operands) ==
    IF ~(/\ Len(operands) = Len(signature.params)
         /\ \A i \in DOMAIN operands :
                is_compatible(OperandDtype(operands[i]), signature.params[i]))
    THEN Abort
    ELSE IF \E i \in DOMAIN operands : IsAbort(interp_operand(s, operands[i]))
    THEN Abort
    ELSE [tag |-> "Args",
          values |-> [i \in DOMAIN operands |-> interp_operand(s, operands[i])]]

\* a Call arm that puts the caller's frame at the bottom of the stack
enter_call_bottom(s, callee_name, func_def, values) ==
    IF IsAbort(values)
    THEN Abort
    ELSE alloc_local_variables(
             write_args([s EXCEPT
                           !.stack_frame = StackFrameNew(func_def.bid_init,
                                                         callee_name),
                           !.stack = <<s.stack_frame>> \o @],
                        func_def.bid_init, values.values))

\* the end of the Call arm: the callee's frame replaces the caller's, which
\* is pushed, then write_args and alloc_local_variables
enter_call(s, callee_name, func_def, values) ==
    IF IsAbort(values)
    THEN Abort
    ELSE alloc_local_variables(
             write_args([s EXCEPT
                           !.stack_frame = StackFrameNew(func_def.bid_init,
                                                         callee_name),
                           !.stack = Append(@, s.stack_frame)],
                        func_def.bid_init, values.values))

\* a Call arm that evaluates the arguments before it looks for the body
call_function_args_first(s, callee_name, operands) ==
    IF ~callee_name.some
    THEN Abort
    ELSE IF callee_name.v \notin DOMAIN ir.decls
    THEN Abort
    ELSE IF ~get_function(ir.decls[callee_name.v]).some
    THEN Abort
    ELSE IF IsAbort(interp_args(s, ir.decls[callee_name.v].signature, operands))
    THEN Abort
    ELSE IF ~ir.decls[callee_name.v].definition.some
    THEN ErrIn(s, NoFunctionDefinition(callee_name.v))
    ELSE enter_call(s, callee_name.v, FuncDef(callee_name.v),
                    interp_args(s, ir.decls[callee_name.v].signature, operands))

\* a Call arm that suspends the caller before it looks for the body
call_function_push_first(s, callee_name, operands) ==
    IF ~callee_name.some
    THEN Abort
    ELSE IF callee_name.v \notin DOMAIN ir.decls
    THEN Abort
    ELSE IF ~get_function(ir.decls[callee_name.v]).some
    THEN Abort
    ELSE IF ~ir.decls[callee_name.v].definition.some
    THEN ErrIn([s EXCEPT !.stack = Append(@, s.stack_frame)],
               NoFunctionDefinition(callee_name.v))
    ELSE enter_call(s, callee_name.v, FuncDef(callee_name.v),
                    interp_args(s, ir.decls[callee_name.v].signature, operands))

\* the Call arm from the callee's name on
call_function(s, callee_name, operands) ==
    IF ~callee_name.some
    THEN Abort
    ELSE IF callee_name.v \notin DOMAIN ir.decls
    THEN Abort
    ELSE IF ~get_function(ir.decls[callee_name.v]).some
    THEN Abort
    ELSE IF ~ir.decls[callee_name.v].definition.some
    THEN ErrIn(s, NoFunctionDefinition(callee_name.v))
    ELSE enter_call(s, callee_name.v, FuncDef(callee_name.v),
                    interp_args(s, ir.decls[callee_name.v].signature, operands))

\* the Call arm from the callee's pointer on
call_pointer(s, ptr, operands) ==
    IF IsAbort(ptr)
    THEN Abort
    ELSE IF ~get_pointer(ptr).some
    THEN Abort
    ELSE IF ~ptr.bid.some
    THEN Abort
    ELSE call_function(s, get_var(s.global_map, ptr.bid.v), operands)

\* the Call arm of interp_instruction
interp_call(s, instruction) ==
    call_pointer(s, interp_operand(s, instruction.callee), instruction.args)

\* the value an instruction computes, with the memory it leaves
Result(value, mem) == [tag |-> "Result", value |-> value, memory |-> mem]

\* map_err of a calculator result into Misc, and its ?
calculated(s, r, msg) ==
    IF IsErr(r)
    THEN ErrIn(s, Misc(s.stack_frame.func_name, s.stack_frame.pc, msg))
    ELSE IF IsAbort(r)
    THEN Abort
    ELSE Result(r, s.memory)

stored(m) == IF IsAbort(m) THEN Abort ELSE Result(VUnit, m.inner)

\* the Store arm from interp_ptr on
store_at(s, p, value) ==
    IF IsErr(p) THEN p ELSE stored(store(s.memory, p.bid, p.offset, value))

loaded(s, v) == IF IsAbort(v) THEN Abort ELSE Result(v, s.memory)

\* the Load arm from interp_ptr on
load_at(s, p) == IF IsErr(p) THEN p ELSE loaded(s, load(s.memory, p.bid, p.offset))

binop(s, op, lhs, rhs, checks) ==
    IF IsAbort(lhs) \/ IsAbort(rhs)
    THEN Abort
    ELSE calculated(s, calculate_binary_operator_expression(op, lhs, rhs, checks),
                    "calculate_binary_operator_expression")

unaryop(s, op, operand) ==
    IF IsAbort(operand)
    THEN Abort
    ELSE calculated(s, calculate_unary_operator_expression(op, operand),
                    "calculate_unary_operator_expression")

store_through(s, ptr, value) ==
    IF IsAbort(ptr) \/ IsAbort(value)
    THEN Abort
    ELSE store_at(s, interp_ptr(s, ptr), value)

load_through(s, ptr) ==
    IF IsAbort(ptr) THEN Abort ELSE load_at(s, interp_ptr(s, ptr))

typecast(s, value, target_dtype) ==
    IF IsAbort(value)
    THEN Abort
    ELSE calculated(s, calculate_typecast(value, target_dtype), "calculate_typecast")

\* the arms of interp_instruction other than Call
interp_result(s, instruction, checks) ==
    CASE instruction.kind = "BinOp" ->
           binop(s, instruction.op, interp_operand(s, instruction.lhs),
                 interp_operand(s, instruction.rhs), checks)
      [] instruction.kind = "UnaryOp" ->
           unaryop(s, instruction.op, interp_operand(s, instruction.operand))
      [] instruction.kind = "Store" ->
           store_through(s, interp_operand(s, instruction.ptr),
                         interp_operand(s, instruction.value))
      [] instruction.kind = "Load" ->
           load_through(s, interp_operand(s, instruction.ptr))
      [] instruction.kind = "TypeCast" ->
           typecast(s, interp_operand(s, instruction.value),
                    instruction.target_dtype)

\* an end of interp_instruction that keys the temp register by the program
\* counter after the increment
write_result_next(s, r) ==
    IF IsAbort(r) \/ IsErr(r)
    THEN r
    ELSE [s EXCEPT !.memory = r.memory,
                   !.stack_frame.registers =
                       write(@, RidTemp(s.stack_frame.pc.bid, s.stack_frame.pc.iid + 1),
                             r.value),
                   !.stack_frame.pc = increment(@)]

\* the end of interp_instruction: the temp register and the program counter
write_result(s, r) ==
    IF IsAbort(r) \/ IsErr(r)
    THEN r
    ELSE [s EXCEPT !.memory = r.memory,
                   !.stack_frame.registers =
                       write(@, RidTemp(s.stack_frame.pc.bid, s.stack_frame.pc.iid),
                             r.value),
                   !.stack_frame.pc = increment(@)]

interp_instruction(s, instruction, checks) ==
    IF instruction.kind = "Call"
    THEN interp_call(s, instruction)
    ELSE write_result(s, interp_result(s, instruction, checks))

\* a restore that binds the value and does not advance the program counter
restore_same_pc(prev_stack_frame, value) ==
    [prev_stack_frame EXCEPT
       !.registers = write(@, RidTemp(prev_stack_frame.pc.bid,
                                      prev_stack_frame.pc.iid), value)]

\* restore previous state: the popped frame gets the value and moves on
restore(prev_stack_frame, value) ==
    [prev_stack_frame EXCEPT
       !.registers = write(@, RidTemp(prev_stack_frame.pc.bid,
                                      prev_stack_frame.pc.iid), value),
       !.pc = increment(@)]

\* a second half of step that takes every returned value for the final one
step_return_final(s, value) == Ok(s, Some(value))

\* the second half of step: a block exit has returned value
step_return(s, value) ==
    IF s.stack = <<>>
    THEN Ok(s, Some(value))
    ELSE Ok([s EXCEPT !.stack = SubSeq(@, 1, Len(@) - 1),
                      !.stack_frame = restore(s.stack[Len(s.stack)], value)],
            None)

\* step after interp_instruction(instr)?
after_instruction(s) == IF IsAbort(s) \/ IsErr(s) THEN s ELSE Ok(s, None)

\* step after interp_block_exit(&block.exit)?
after_block_exit(r) ==
    IF IsAbort(r) \/ IsErr(r)
    THEN r
    ELSE IF ~r.value.some
    THEN r
    ELSE step_return(r.state, r.value.v)

step(s, checks) ==
    LET blocks == FuncDef(s.stack_frame.func_name).blocks
        pc == s.stack_frame.pc
    IN  IF pc.bid \notin DOMAIN blocks
        THEN Abort
        ELSE IF pc.iid + 1 \in DOMAIN blocks[pc.bid].instructions
        THEN after_instruction(
                 interp_instruction(s, blocks[pc.bid].instructions[pc.iid + 1],
                                    checks))
        ELSE after_block_exit(interp_block_exit(s, blocks[pc.bid].exit))

\* State::run: step after step until one yields a value or fails
RECURSIVE run(_, _)
run(r, checks) ==
    IF IsAbort(r)
    THEN [status |-> "abort", result |-> None]
    ELSE IF IsErr(r)
    THEN [status |-> "error", result |-> Some(r.err)]
    ELSE IF r.tag = "State"
    THEN run(step(r, checks), checks)
    ELSE IF r.value.some
    THEN [status |-> "value", result |-> r.value]
    ELSE run(step(r.state, checks), checks)

\* interp: State::new(ir, args)?, then run
interp(values, order, checks) == run(StateNew(values, order), checks)

-----------------------------------------------------------------------------
(* Constructors of the IR *)

BinOp(op, lhs, rhs) == [kind |-> "BinOp", op |-> op, lhs |-> lhs, rhs |-> rhs]

UnaryOp(op, operand) == [kind |-> "UnaryOp", op |-> op, operand |-> operand]

Store(ptr, value) == [kind |-> "Store", ptr |-> ptr, value |-> value]

Load(ptr) == [kind |-> "Load", ptr |-> ptr]

Call(callee, operands) == [kind |-> "Call", callee |-> callee, args |-> operands]

TypeCast(value, target_dtype) ==
    [kind |-> "TypeCast", value |-> value, target_dtype |-> target_dtype]

JumpArg(bid, operands) == [bid |-> bid, args |-> operands]

Jump(arg) == [kind |-> "Jump", arg |-> arg]

ConditionalJump(condition, arg_then, arg_else) ==
    [kind |-> "ConditionalJump", condition |-> condition, arg_then |-> arg_then,
     arg_else |-> arg_else]

Switch(value, default, cases) ==
    [kind |-> "Switch", value |-> value, default |-> default, cases |-> cases]

Return(value) == [kind |-> "Return", value |-> value]

ExitUnreachable == [kind |-> "Unreachable"]

Block(phinodes, instructions, exit) ==
    [phinodes |-> phinodes, instructions |-> instructions, exit |-> exit]

FunctionDefinition(allocations, blocks, bid_init) ==
    [allocations |-> allocations, blocks |-> blocks, bid_init |-> bid_init]

DeclVariable(dtype, initializer) ==
    [kind |-> "Variable", dtype |-> dtype, initializer |-> initializer]

DeclFunction(ret, params, definition) ==
    [kind |-> "Function", signature |-> [ret |-> ret, params |-> params],
     definition |-> definition]

TranslationUnit(decls) == [decls |-> decls]

-----------------------------------------------------------------------------
(* The programs and arguments the interpreter is run on *)

I8 == DInt(8, FALSE)

IsInt(v) == v.tag = "Int"

SameIntType(a, b) ==
    IsInt(a) /\ IsInt(b) /\ a.width = b.width /\ a.is_signed = b.is_signed

\* register operands: block argument, instruction result, local allocation
A(bid, aid) == OpReg(RidArg(bid, aid), I8)

T(bid, iid) == OpReg(RidTemp(bid, iid), I8)

L(id) == OpReg(RidLocal(id), DPointer)

\* a reference to the global or function name
G(name) == OpConst(CGlobalVariable(name, DPointer))

K(value) == OpConst(CInt(value, 8, FALSE))

IntValues == (0..MaxSmall) \cup {255}

Widths == {1, 8}

\* the Ints whose value fits their width
Ints ==
    {x \in {VInt(v, w, s) : v \in IntValues, w \in Widths, s \in BOOLEAN} :
        x.value < 2 ^ x.width}

OtherValues == {VUnit, nullptr, VFloat(1, 32), VPointer(Some(0), 0)}

Values == Ints \cup OtherValues

\* pointers into and just beyond the blocks of a small program
Pointers == {VPointer(Some(b), o) : b \in 0..4, o \in 0..1} \cup {nullptr}

FewValues == {VInt(1, 8, FALSE), VInt(255, 8, FALSE), nullptr, VUnit}

\* main(a0, a1) { return a0 op a1; }
ProgBinOp(op) ==
    TranslationUnit(
        [main |-> DeclFunction(I8, <<I8, I8>>, Some(FunctionDefinition(<<>>,
            0 :> Block(<<I8, I8>>, <<BinOp(op, A(0, 0), A(0, 1))>>,
                       Return(T(0, 0))),
            0)))])

\* main(a0) { return op a0; }
ProgUnaryOp(op) ==
    TranslationUnit(
        [main |-> DeclFunction(I8, <<I8>>, Some(FunctionDefinition(<<>>,
            0 :> Block(<<I8>>, <<UnaryOp(op, A(0, 0))>>, Return(T(0, 0))),
            0)))])

\* main(a0) { return (dtype) a0; }
ProgTypeCast(dtype) ==
    TranslationUnit(
        [main |-> DeclFunction(I8, <<I8>>, Some(FunctionDefinition(<<>>,
            0 :> Block(<<I8>>, <<TypeCast(A(0, 0), dtype)>>, Return(T(0, 0))),
            0)))])

CastDtypes == {DInt(8, FALSE), DInt(1, TRUE), DFloat(64), DPointer}

\* main(a0, a1) { int l; *a0 = a1; return *a0; } beside a global g = 3
ProgStoreLoad ==
    TranslationUnit(
        [main |-> DeclFunction(I8, <<DPointer, I8>>, Some(FunctionDefinition(<<I8>>,
            0 :> Block(<<DPointer, I8>>,
                       <<Store(A(0, 0), A(0, 1)), Load(A(0, 0))>>,
                       Return(T(0, 1))),
            0))),
         g |-> DeclVariable(I8, Some(CInt(3, 8, FALSE)))])

\* main(a0) { return *a0; } beside a global g = 3
ProgLoad ==
    TranslationUnit(
        [main |-> DeclFunction(I8, <<DPointer>>, Some(FunctionDefinition(<<I8>>,
            0 :> Block(<<DPointer>>, <<Load(A(0, 0))>>, Return(T(0, 0))),
            0))),
         g |-> DeclVariable(I8, Some(CInt(3, 8, FALSE)))])

\* main(a0, a1) { int l0, l1; l0 = a0; l1 = a1; f(a1); x = l0; y = l1;
\*                z = g; l0 = a1; w = l0; return x; }
\* f(x) { int l; l = x; g = x; return l; }
ProgMemory ==
    TranslationUnit(
        [main |-> DeclFunction(I8, <<I8, I8>>, Some(FunctionDefinition(<<I8, I8>>,
            0 :> Block(<<I8, I8>>,
                       <<Store(L(0), A(0, 0)),
                         Store(L(1), A(0, 1)),
                         Call(G("f"), <<A(0, 1)>>),
                         Load(L(0)),
                         Load(L(1)),
                         Load(G("g")),
                         Store(L(0), A(0, 1)),
                         Load(L(0))>>,
                       Return(T(0, 3))),
            0))),
         f |-> DeclFunction(I8, <<I8>>, Some(FunctionDefinition(<<I8>>,
            0 :> Block(<<I8>>,
                       <<Store(L(0), A(0, 0)),
                         Store(G("g"), A(0, 0)),
                         Load(L(0))>>,
                       Return(T(0, 2))),
            0))),
         g |-> DeclVariable(I8, None)])

\* main(a0) { return (*a0)(); } beside f() { return 7; }, a global g and
\* a function ext declared without a body
ProgCallPointer ==
    TranslationUnit(
        [main |-> DeclFunction(I8, <<DPointer>>, Some(FunctionDefinition(<<>>,
            0 :> Block(<<DPointer>>, <<Call(A(0, 0), <<>>)>>, Return(T(0, 0))),
            0))),
         f |-> DeclFunction(I8, <<>>, Some(FunctionDefinition(<<>>,
            0 :> Block(<<>>, <<>>, Return(K(7))),
            0))),
         g |-> DeclVariable(I8, None),
         ext |-> DeclFunction(I8, <<>>, None)])

\* main() { return ext(operands); } with ext(int) declared without a body
ProgCallNoBody(operands) ==
    TranslationUnit(
        [main |-> DeclFunction(I8, <<>>, Some(FunctionDefinition(<<>>,
            0 :> Block(<<>>, <<Call(G("ext"), operands)>>, Return(T(0, 0))),
            0))),
         ext |-> DeclFunction(I8, <<I8>>, None)])

\* argument lists that fit ext's signature, that do not, and that read a
\* register never written
NoBodyOperands == {<<K(3)>>, <<>>, <<K(3), K(4)>>, <<G("ext")>>, <<T(5, 5)>>}

\* main(a0, a1) { return add(a0, a1); }  add(a, b) { return a + b; }
ProgAdd ==
    TranslationUnit(
        [main |-> DeclFunction(I8, <<I8, I8>>, Some(FunctionDefinition(<<>>,
            0 :> Block(<<I8, I8>>, <<Call(G("add"), <<A(0, 0), A(0, 1)>>)>>,
                       Return(T(0, 0))),
            0))),
         add |-> DeclFunction(I8, <<I8, I8>>, Some(FunctionDefinition(<<>>,
            0 :> Block(<<I8, I8>>, <<BinOp("Plus", A(0, 0), A(0, 1))>>,
                       Return(T(0, 0))),
            0)))])

\* main(a0) { return rec(a0); }
\* rec(n) { int l; l = n; if (n == 0) return l; return rec(n - 1) + l; }
ProgRec ==
    TranslationUnit(
        [main |-> DeclFunction(I8, <<I8>>, Some(FunctionDefinition(<<>>,
            0 :> Block(<<I8>>, <<Call(G("rec"), <<A(0, 0)>>)>>, Return(T(0, 0))),
            0))),
         rec |-> DeclFunction(I8, <<I8>>, Some(FunctionDefinition(<<I8>>,
            (0 :> Block(<<I8>>,
                        <<Store(L(0), A(0, 0)),
                          BinOp("Equals", A(0, 0), K(0))>>,
                        ConditionalJump(T(0, 1), JumpArg(1, <<>>), JumpArg(2, <<>>))))
            @@ (1 :> Block(<<>>, <<Load(L(0))>>, Return(T(1, 0))))
            @@ (2 :> Block(<<>>,
                           <<BinOp("Minus", A(0, 0), K(1)),
                             Call(G("rec"), <<T(2, 0)>>),
                             Load(L(0)),
                             BinOp("Plus", T(2, 1), T(2, 2))>>,
                           Return(T(2, 3)))),
            0)))])

\* main(a0, a1) { goto b1(a0, a1); b1(x, y): return x + y; }
ProgJump ==
    TranslationUnit(
        [main |-> DeclFunction(I8, <<I8, I8>>, Some(FunctionDefinition(<<>>,
            (0 :> Block(<<I8, I8>>, <<>>, Jump(JumpArg(1, <<A(0, 0), A(0, 1)>>))))
            @@ (1 :> Block(<<I8, I8>>, <<BinOp("Plus", A(1, 0), A(1, 1))>>,
                           Return(T(1, 0)))),
            0)))])

\* main(x, y) { b0(x, y): if (x < y) goto b0(y, x); else goto b1(); b1: return x; }
ProgLoop ==
    TranslationUnit(
        [main |-> DeclFunction(I8, <<I8, I8>>, Some(FunctionDefinition(<<>>,
            (0 :> Block(<<I8, I8>>, <<BinOp("Less", A(0, 0), A(0, 1))>>,
                        ConditionalJump(T(0, 0),
                                        JumpArg(0, <<A(0, 1), A(0, 0)>>),
                                        JumpArg(1, <<>>))))
            @@ (1 :> Block(<<>>, <<>>, Return(A(0, 0)))),
            0)))])

\* main(a0) { if (a0) goto b1(9); else goto b2(); b1(x): return x; b2: return 2; }
ProgCond ==
    TranslationUnit(
        [main |-> DeclFunction(I8, <<I8>>, Some(FunctionDefinition(<<>>,
            (0 :> Block(<<I8>>, <<>>,
                        ConditionalJump(A(0, 0), JumpArg(1, <<K(9)>>),
                                        JumpArg(2, <<>>))))
            @@ (1 :> Block(<<I8>>, <<>>, Return(A(1, 0))))
            @@ (2 :> Block(<<>>, <<>>, Return(K(2)))),
            0)))])

\* main(a0) { switch (a0) { case 1: return 11; case 2: return 12;
\*            case 2: return 13; case &g: return 14; default: return 15; } }
ProgSwitch ==
    TranslationUnit(
        [main |-> DeclFunction(I8, <<I8>>, Some(FunctionDefinition(<<>>,
            (0 :> Block(<<I8>>, <<>>,
                        Switch(A(0, 0), JumpArg(5, <<>>),
                               <<<<CInt(1, 8, FALSE), JumpArg(1, <<>>)>>,
                                 <<CInt(2, 8, FALSE), JumpArg(2, <<>>)>>,
                                 <<CInt(2, 8, FALSE), JumpArg(3, <<>>)>>,
                                 <<CGlobalVariable("g", DPointer), JumpArg(4, <<>>)>>>>)))
            @@ (1 :> Block(<<>>, <<>>, Return(K(11))))
            @@ (2 :> Block(<<>>, <<>>, Return(K(12))))
            @@ (3 :> Block(<<>>, <<>>, Return(K(13))))
            @@ (4 :> Block(<<>>, <<>>, Return(K(14))))
            @@ (5 :> Block(<<>>, <<>>, Return(K(15)))),
            0))),
         g |-> DeclVariable(I8, None)])

\* main(a0) { switch (a0) { case 1: goto b1(a0); default: goto b0(1); } }
\* entered again through its own entry block
ProgSwitchJump ==
    TranslationUnit(
        [main |-> DeclFunction(I8, <<I8>>, Some(FunctionDefinition(<<>>,
            (0 :> Block(<<I8>>, <<>>,
                        Switch(A(0, 0), JumpArg(0, <<K(1)>>),
                               <<<<CInt(1, 8, FALSE), JumpArg(1, <<A(0, 0)>>)>>>>)))
            @@ (1 :> Block(<<I8>>, <<>>, Return(A(1, 0)))),
            0)))])

\* main() { unreachable }
ProgUnreachable ==
    TranslationUnit(
        [main |-> DeclFunction(I8, <<>>, Some(FunctionDefinition(<<>>,
            0 :> Block(<<>>, <<>>, ExitUnreachable),
            0)))])

\* main(a0) { return rec(a0); }  rec(n) { if (n == 0) unreachable; return rec(n - 1); }
ProgUnreachableDeep ==
    TranslationUnit(
        [main |-> DeclFunction(I8, <<I8>>, Some(FunctionDefinition(<<>>,
            0 :> Block(<<I8>>, <<Call(G("rec"), <<A(0, 0)>>)>>, Return(T(0, 0))),
            0))),
         rec |-> DeclFunction(I8, <<I8>>, Some(FunctionDefinition(<<>>,
            (0 :> Block(<<I8>>, <<BinOp("Equals", A(0, 0), K(0))>>,
                        ConditionalJump(T(0, 0), JumpArg(1, <<>>), JumpArg(2, <<>>))))
            @@ (1 :> Block(<<>>, <<>>, ExitUnreachable))
            @@ (2 :> Block(<<>>,
                           <<BinOp("Minus", A(0, 0), K(1)),
                             Call(G("rec"), <<T(2, 0)>>)>>,
                           Return(T(2, 1)))),
            0)))])

\* main() { return 42; }
ProgConst ==
    TranslationUnit(
        [main |-> DeclFunction(DInt(32, TRUE), <<>>, Some(FunctionDefinition(<<>>,
            0 :> Block(<<>>, <<>>, Return(OpConst(CInt(42, 32, TRUE)))),
            0)))])

\* int *p = &g; int g = 5; main() { return **(&p); }
ProgGlobals ==
    TranslationUnit(
        [main |-> DeclFunction(I8, <<>>, Some(FunctionDefinition(<<>>,
            0 :> Block(<<>>, <<Load(G("p")), Load(T(0, 0))>>, Return(T(0, 1))),
            0))),
         p |-> DeclVariable(DPointer, Some(CGlobalVariable("g", DPointer))),
         g |-> DeclVariable(I8, Some(CInt(5, 8, FALSE)))])

\* int g; main() { return &g; }
ProgReturnGlobal ==
    TranslationUnit(
        [main |-> DeclFunction(DPointer, <<>>, Some(FunctionDefinition(<<>>,
            0 :> Block(<<>>, <<>>, Return(G("g"))),
            0))),
         g |-> DeclVariable(I8, None)])

\* no declaration named main
ProgNoMain == TranslationUnit([g |-> DeclVariable(I8, None)])

\* main declared as a variable
ProgMainVariable ==
    TranslationUnit([main |-> DeclVariable(I8, Some(CInt(1, 8, FALSE)))])

\* main declared without a body
ProgMainNoBody ==
    TranslationUnit([main |-> DeclFunction(I8, <<>>, None),
                     g |-> DeclVariable(I8, None)])

\* a main whose entry block id names no block
ProgNoBlock ==
    TranslationUnit(
        [main |-> DeclFunction(I8, <<>>, Some(FunctionDefinition(<<>>,
            0 :> Block(<<>>, <<>>, Return(K(0))),
            1)))])

\* the operands run against lhs: those of its width and signedness, and
\* some that are not
OperandsFor(lhs) ==
    FewValues \cup (IF lhs.tag = "Int"
                    THEN {x \in Ints : SameIntType(x, lhs)}
                    ELSE {})

Input(program, values) == [ir |-> program, args |-> values]

Inputs ==
    UNION {{Input(ProgBinOp(op), <<a, b>>) : op \in BinaryOperators, b \in OperandsFor(a)} :
              a \in Values}
    \cup {Input(ProgUnaryOp(op), <<a>>) : op \in UnaryOperators, a \in Values}
    \cup {Input(ProgTypeCast(d), <<a>>) : d \in CastDtypes, a \in Values}
    \cup {Input(ProgStoreLoad, <<a, b>>) : a \in Pointers \cup {VUnit}, b \in FewValues}
    \cup {Input(ProgLoad, <<a>>) : a \in Pointers \cup FewValues}
    \cup {Input(ProgMemory, <<a, b>>) : a \in FewValues, b \in FewValues}
    \cup {Input(ProgCallPointer, <<a>>) : a \in Pointers \cup FewValues}
    \cup {Input(ProgCallNoBody(o), <<>>) : o \in NoBodyOperands}
    \cup {Input(ProgAdd, <<a, b>>) : a \in Ints, b \in FewValues}
    \cup {Input(ProgRec, <<VInt(n, 8, FALSE)>>) : n \in 0..MaxRec}
    \cup {Input(ProgJump, <<a, b>>) : a \in FewValues, b \in FewValues}
    \cup {Input(ProgLoop, <<a, b>>) : a \in Ints, b \in Ints}
    \cup {Input(ProgCond, <<a>>) : a \in Values}
    \cup {Input(ProgSwitch, <<a>>) : a \in Values \cup Pointers}
    \cup {Input(ProgSwitchJump, <<a>>) : a \in Values}
    \cup {Input(ProgUnreachableDeep, <<VInt(n, 8, FALSE)>>) : n \in 0..MaxRec}
    \cup {Input(q, <<>>) : q \in {ProgUnreachable, ProgConst, ProgGlobals, ProgReturnGlobal,
                                   ProgNoMain, ProgMainVariable, ProgMainNoBody,
                                   ProgNoBlock}}

-----------------------------------------------------------------------------
(* The state machine: interp = State::new, then run's loop over step *)

Init ==
    /\ \E input \in Inputs : ir = input.ir /\ args = input.args
    /\ overflow_checks \in BOOLEAN
    /\ status = "init"
    /\ result = None
    /\ global_map = GlobalMapDefault
    /\ stack_frame = StackFrameNew(0, "")
    /\ stack = <<>>
    /\ memory = <<>>

SetState(s) ==
    /\ global_map' = s.global_map
    /\ stack_frame' = s.stack_frame
    /\ stack' = s.stack
    /\ memory' = s.memory

\* a panic unwinds out of interp; an Err is what interp returns, and the
\* State is as the failed step left it
Fail(r) ==
    /\ status' = IF IsAbort(r) THEN "abort" ELSE "error"
    /\ result' = IF IsAbort(r) THEN result ELSE Some(r.err)
    /\ IF IsErr(r) /\ "state" \in DOMAIN r
       THEN SetState(r.state)
       ELSE UNCHANGED <<global_map, stack_frame, stack, memory>>

\* the outcome r of State::new or of step becomes the next state
Becomes(r) ==
    IF IsAbort(r) \/ IsErr(r)
    THEN Fail(r)
    ELSE IF r.tag = "State"
    THEN SetState(r) /\ status' = "running" /\ UNCHANGED result
    ELSE /\ SetState(r.state)
         /\ status' = IF r.value.some THEN "value" ELSE "running"
         /\ result' = IF r.value.some THEN r.value ELSE result

\* interp: State::new(ir, args)?
New ==
    /\ status = "init"
    /\ \E order \in DeclOrders(ir.decls) : Becomes(StateNew(args, order))
    /\ UNCHANGED <<ir, args, overflow_checks>>

\* what the next call of step executes
NextKind ==
    IF status # "running"
    THEN "None"
    ELSE
    LET blocks == FuncDef(stack_frame.func_name).blocks
    IN  IF stack_frame.pc.bid \notin DOMAIN blocks
        THEN "NoBlock"
        ELSE LET block == blocks[stack_frame.pc.bid]
             IN  IF stack_frame.pc.iid + 1 \in DOMAIN block.instructions
                 THEN block.instructions[stack_frame.pc.iid + 1].kind
                 ELSE block.exit.kind

\* one iteration of run's loop: step()?, and the return of its value
Step ==
    /\ status = "running"
    /\ Becomes(step(CurState, overflow_checks))
    /\ UNCHANGED <<ir, args, overflow_checks>>

StepBinOp ==
    /\ NextKind = "BinOp"
    /\ Step

StepUnaryOp ==
    /\ NextKind = "UnaryOp"
    /\ Step

StepStore ==
    /\ NextKind = "Store"
    /\ Step

StepLoad ==
    /\ NextKind = "Load"
    /\ Step

StepCall ==
    /\ NextKind = "Call"
    /\ Step

StepTypeCast ==
    /\ NextKind = "TypeCast"
    /\ Step

StepJump ==
    /\ NextKind = "Jump"
    /\ Step

StepConditionalJump ==
    /\ NextKind = "ConditionalJump"
    /\ Step

StepSwitch ==
    /\ NextKind = "Switch"
    /\ Step

StepReturn ==
    /\ NextKind = "Return"
    /\ Step

StepUnreachable ==
    /\ NextKind = "Unreachable"
    /\ Step

\* step's lookup of the current block panics
StepNoBlock ==
    /\ NextKind = "NoBlock"
    /\ Step

Next ==
    \/ New
    \/ StepBinOp
    \/ StepUnaryOp
    \/ StepStore
    \/ StepLoad
    \/ StepCall
    \/ StepTypeCast
    \/ StepJump
    \/ StepConditionalJump
    \/ StepSwitch
    \/ StepReturn
    \/ StepUnreachable
    \/ StepNoBlock

Spec == Init /\ [][Next]_vars

-----------------------------------------------------------------------------
(* What the claims speak of *)

\* the block, instruction and block exit the next step executes
CurBlock == FuncDef(stack_frame.func_name).blocks[stack_frame.pc.bid]

CurInstr == CurBlock.instructions[stack_frame.pc.iid + 1]

CurExit == CurBlock.exit

\* the temp register keyed by the current program counter
CurTemp == RidTemp(stack_frame.pc.bid, stack_frame.pc.iid)

\* the value of an operand in the current frame
Eval(operand) == interp_operand(CurState, operand)

\* the step ends in a structured error of the given kind, the state untouched
FailsWith(kind) ==
    /\ status' = "error"
    /\ result'.some
    /\ result'.v.kind = kind
    /\ UNCHANGED <<global_map, stack_frame, stack, memory>>

\* the step completes and leaves v in the temp register of its instruction
Yields(v) ==
    /\ status' = "running"
    /\ CurTemp \in DOMAIN stack_frame'.registers
    /\ stack_frame'.registers[CurTemp] = v

-----------------------------------------------------------------------------
(* C1 *)

C1_Arithmetic == {"Plus", "Minus", "Multiply"}

C1_Math(op, l, r) ==
    CASE op = "Plus" -> l + r
      [] op = "Minus" -> l - r
      [] op = "Multiply" -> l * r

C1_Case ==
    /\ NextKind = "BinOp"
    /\ CurInstr.op \in C1_Arithmetic
    /\ SameIntType(Eval(CurInstr.lhs), Eval(CurInstr.rhs))

\* C1: add, subtract and multiply on two Ints of equal width w and equal
\* signedness complete and yield an Int of that width and signedness whose
\* value is the mathematical result reduced modulo 2^w.
C1_WrapsAtWidth ==
    [][C1_Case =>
         LET l == Eval(CurInstr.lhs)
             r == Eval(CurInstr.rhs)
         IN  Yields(VInt(C1_Math(CurInstr.op, l.value, r.value) % (2 ^ l.width),
                         l.width, l.is_signed))]_vars

-----------------------------------------------------------------------------
(* C2 *)

\* the JumpArg the block exit about to be executed jumps with, if it jumps
C2_Taken ==
    CASE NextKind = "Jump" -> Some(CurExit.arg)
      [] NextKind = "ConditionalJump" ->
           LET c == Eval(CurExit.condition)
           IN  IF IsInt(c) /\ c.width = 1
               THEN Some(IF c.value = 1 THEN CurExit.arg_then ELSE CurExit.arg_else)
               ELSE None
      [] NextKind = "Switch" ->
           LET v == Eval(CurExit.value)
               found == find_case(CurState, v, CurExit.cases, 1)
           IN  IF IsAbort(v) \/ IsAbort(found)
               THEN None
               ELSE Some(IF found.some THEN found.v ELSE CurExit.default)
      [] OTHER -> None

\* the jump is well formed: its target exists and takes as many phi-inputs as
\* the jump has arguments, each compatible and each with a value
C2_WellFormed(arg) ==
    LET blocks == FuncDef(stack_frame.func_name).blocks
    IN  /\ arg.bid \in DOMAIN blocks
        /\ Len(arg.args) = Len(blocks[arg.bid].phinodes)
        /\ \A i \in DOMAIN arg.args :
              /\ is_compatible(OperandDtype(arg.args[i]), blocks[arg.bid].phinodes[i])
              /\ ~IsAbort(Eval(arg.args[i]))

C2_Bound(arg) ==
    /\ status' = "running"
    /\ stack_frame'.pc = PcNew(arg.bid)
    /\ \A i \in DOMAIN arg.args :
          /\ RidArg(arg.bid, i - 1) \in DOMAIN stack_frame'.registers
          /\ stack_frame'.registers[RidArg(arg.bid, i - 1)] = Eval(arg.args[i])

\* C2: a block exit that jumps (Jump, ConditionalJump, Switch) to a target with
\* n phi-inputs and n compatible arguments completes without abort, sets the
\* program counter to (target, 0) and leaves the value of the i-th argument in
\* the target's argument register i, whether or not those registers were
\* written before in the frame.
C2_JumpBindsArguments ==
    [][(C2_Taken.some /\ C2_WellFormed(C2_Taken.v)) => C2_Bound(C2_Taken.v)]_vars

-----------------------------------------------------------------------------
(* C3 *)

\* the Call about to be executed enters its callee
C3_CallEnters == NextKind = "Call" /\ status' = "running"

\* the Return about to be executed hands its value to a suspended caller
C3_ReturnsToCaller ==
    NextKind = "Return" /\ stack # <<>> /\ ~IsAbort(Eval(CurExit.value))

C3_Top == stack[Len(stack)]

\* C3: a Call at (b, i) suspends the caller's frame as it is, no step but the
\* matching Return touches the suspended frames, and that Return makes the
\* caller current again at (b, i + 1) with the returned value in its temp
\* register (b, i), its other registers as they were before the call and the
\* stack as deep as before the call, at any nesting depth.
C3_CallThenReturn ==
    [][/\ C3_CallEnters => stack' = Append(stack, stack_frame)
       /\ C3_ReturnsToCaller =>
            /\ status' = "running"
            /\ stack' = SubSeq(stack, 1, Len(stack) - 1)
            /\ stack_frame'.func_name = C3_Top.func_name
            /\ stack_frame'.pc = [bid |-> C3_Top.pc.bid, iid |-> C3_Top.pc.iid + 1]
            /\ DOMAIN stack_frame'.registers =
                   DOMAIN C3_Top.registers \cup {RidTemp(C3_Top.pc.bid, C3_Top.pc.iid)}
            /\ \A rid \in DOMAIN stack_frame'.registers :
                  stack_frame'.registers[rid] =
                      IF rid = RidTemp(C3_Top.pc.bid, C3_Top.pc.iid)
                      THEN Eval(CurExit.value)
                      ELSE C3_Top.registers[rid]
       /\ (status = "running" /\ ~C3_CallEnters /\ ~C3_ReturnsToCaller) =>
            stack' = stack
       /\ \A k \in DOMAIN stack :
             LET blocks == FuncDef(stack[k].func_name).blocks
                 pc == stack[k].pc
             IN  /\ pc.bid \in DOMAIN blocks
                 /\ pc.iid + 1 \in DOMAIN blocks[pc.bid].instructions
                 /\ blocks[pc.bid].instructions[pc.iid + 1].kind = "Call"]_vars

\* a callee two calls deep has returned into its caller, one call deep
C3_Witness ==
    /\ status = "running"
    /\ Len(stack) = 1
    /\ stack_frame.func_name = "rec"
    /\ stack_frame.pc = [bid |-> 2, iid |-> 2]
    /\ RidTemp(2, 1) \in DOMAIN stack_frame.registers

-----------------------------------------------------------------------------
(* C4 *)

IsNullPointer(v) == v.tag = "Pointer" /\ ~v.bid.some

\* the next step dereferences a pointer without a block id
C4_Case ==
    \/ NextKind = "Load" /\ IsNullPointer(Eval(CurInstr.ptr))
    \/ /\ NextKind = "Store"
       /\ IsNullPointer(Eval(CurInstr.ptr))
       /\ ~IsAbort(Eval(CurInstr.value))
    \/ NextKind = "Call" /\ IsNullPointer(Eval(CurInstr.callee))

\* C4: a Load or Store whose pointer operand, or a Call whose callee operand,
\* evaluates to a Pointer without a block id ends in the error Misc; it does
\* not abort, yields no value and performs no access.
C4_NullPointerIsMisc == [][C4_Case => FailsWith("Misc")]_vars

-----------------------------------------------------------------------------
(* C5 *)

\* the cell the Store or Load about to be executed addresses, if it is a cell
\* of an allocated block
C5_Addressed ==
    IF NextKind \in {"Store", "Load"}
       /\ Eval(CurInstr.ptr).tag = "Pointer"
       /\ Eval(CurInstr.ptr).bid.some
       /\ InBounds(memory, Eval(CurInstr.ptr).bid.v, Eval(CurInstr.ptr).offset)
    THEN {<<Eval(CurInstr.ptr).bid.v, Eval(CurInstr.ptr).offset>>}
    ELSE {}

C5_Cells(mem) ==
    {c \in (0..Len(mem) - 1) \X {0} : InBounds(mem, c[1], c[2])}

C5_Cell(mem, c) == mem[c[1] + 1][c[2] + 1]

\* C5: a Store of v through (bid, offset) within an allocated block leaves v in
\* that cell, a Load through (bid, offset) yields what the cell holds, and no
\* step but a Store to that very cell (no other Store, Load, allocation, Call
\* or Return) changes what a cell holds: a Load after a Store yields the value
\* stored.
C5_StoreThenLoad ==
    [][/\ (NextKind = "Store" /\ ~IsAbort(Eval(CurInstr.value))) =>
            \A c \in C5_Addressed :
               /\ status' = "running"
               /\ c \in C5_Cells(memory')
               /\ C5_Cell(memory', c) = Eval(CurInstr.value)
       /\ NextKind = "Load" =>
            \A c \in C5_Addressed : Yields(C5_Cell(memory, c))
       /\ status = "running" =>
            \A c \in C5_Cells(memory) :
               (NextKind = "Store" /\ c \in C5_Addressed)
               \/ (c \in C5_Cells(memory') /\ C5_Cell(memory', c) = C5_Cell(memory, c))
      ]_vars

\* main has stored a0 in its first local, stored a1 elsewhere, called f, which
\* allocated and stored twice and returned, and has loaded a0 back
C5_Witness ==
    /\ ir = ProgMemory
    /\ status = "running"
    /\ stack = <<>>
    /\ stack_frame.pc = [bid |-> 0, iid |-> 4]
    /\ args[1] # args[2]
    /\ stack_frame.registers[RidTemp(0, 3)] = args[1]

-----------------------------------------------------------------------------
(* C6 *)

C6_Relational == {"Equals", "NotEquals", "Less", "GreaterOrEqual"}

\* the order of two stored u128 values given by their residues
C6_StoredLess(l, r) ==
    CASE l >= 0 /\ r >= 0 -> l < r
      [] l < 0 /\ r < 0 -> l < r
      [] l >= 0 /\ r < 0 -> TRUE
      [] l < 0 /\ r >= 0 -> FALSE

C6_Holds(op, l, r) ==
    CASE op = "Equals" -> l = r
      [] op = "NotEquals" -> l # r
      [] op = "Less" -> C6_StoredLess(l, r)
      [] op = "GreaterOrEqual" -> ~C6_StoredLess(l, r)

C6_Case ==
    /\ NextKind = "BinOp"
    /\ CurInstr.op \in C6_Relational
    /\ SameIntType(Eval(CurInstr.lhs), Eval(CurInstr.rhs))

\* C6: equality, inequality, less-than and greater-or-equal on two Ints of
\* equal width and signedness yield an Int of width 1 with the operands'
\* signedness, whose value is 1 when the relation holds on the stored values
\* and 0 when it does not, whatever the operands' width.
C6_RelationalIsOneBit ==
    [][C6_Case =>
         LET l == Eval(CurInstr.lhs)
             r == Eval(CurInstr.rhs)
         IN  Yields(VInt(IF C6_Holds(CurInstr.op, l.value, r.value) THEN 1 ELSE 0,
                         1, l.is_signed))]_vars

\* 3 < 255 on signed operands of width 8 has yielded the signed one-bit 1
C6_Witness ==
    /\ ir = ProgBinOp("Less")
    /\ args = <<VInt(3, 8, TRUE), VInt(255, 8, TRUE)>>
    /\ status = "running"
    /\ stack_frame.pc = [bid |-> 0, iid |-> 1]
    /\ stack_frame.registers[RidTemp(0, 0)] = VInt(1, 1, TRUE)

-----------------------------------------------------------------------------
(* C7 *)

C7_Supported == C1_Arithmetic \cup C6_Relational

\* the next step evaluates what the calculator does not support
C7_Case ==
    \/ /\ NextKind = "BinOp"
       /\ ~IsAbort(Eval(CurInstr.lhs))
       /\ ~IsAbort(Eval(CurInstr.rhs))
       /\ \/ CurInstr.op \notin C7_Supported
             /\ SameIntType(Eval(CurInstr.lhs), Eval(CurInstr.rhs))
          \/ ~IsInt(Eval(CurInstr.lhs))
          \/ ~IsInt(Eval(CurInstr.rhs))
    \/ /\ NextKind = "UnaryOp"
       /\ ~IsAbort(Eval(CurInstr.operand))
       /\ ~IsInt(Eval(CurInstr.operand))
    \/ /\ NextKind = "TypeCast"
       /\ ~IsAbort(Eval(CurInstr.value))
       /\ ~(Eval(CurInstr.value).tag = "Int" /\ CurInstr.target_dtype.tag = "Int")
       /\ ~(Eval(CurInstr.value).tag = "Float" /\ CurInstr.target_dtype.tag = "Float")

\* C7: a binary operator outside add, subtract, multiply, equals, not-equals,
\* less and greater-or-equal, a binary or unary operator on an operand that is
\* no Int, and a cast other than Int to Int or Float to Float end in the error
\* Misc; they neither abort nor yield a value.
C7_UnsupportedIsMisc == [][C7_Case => FailsWith("Misc")]_vars

-----------------------------------------------------------------------------
(* C8 *)

\* the name the callee of the Call about to be executed resolves to
C8_Callee ==
    LET ptr == Eval(CurInstr.callee)
    IN  IF ptr.tag = "Pointer" /\ ptr.bid.some
        THEN get_var(global_map, ptr.bid.v)
        ELSE None

C8_Case ==
    /\ NextKind = "Call"
    /\ C8_Callee.some
    /\ C8_Callee.v \in DOMAIN ir.decls
    /\ ir.decls[C8_Callee.v].kind = "Function"
    /\ ~ir.decls[C8_Callee.v].definition.some

\* C8: a Call whose callee resolves to a function declared without a body
\* fails with NoFunctionDefinition naming the callee, pushes no frame and
\* allocates nothing, whatever its argument list.
C8_CallWithoutBody ==
    [][C8_Case =>
         /\ status' = "error"
         /\ result' = Some(NoFunctionDefinition(C8_Callee.v))
         /\ UNCHANGED <<global_map, stack_frame, stack, memory>>]_vars

\* ext(int), declared without a body, has been called with two arguments
C8_Witness ==
    /\ ir = ProgCallNoBody(<<K(3), K(4)>>)
    /\ status = "error"
    /\ result = Some(NoFunctionDefinition("ext"))
    /\ stack = <<>>

-----------------------------------------------------------------------------
(* C9 *)

C9_NoMain ==
    \/ "main" \notin DOMAIN ir.decls
    \/ ir.decls["main"].kind = "Variable"

C9_MainWithoutBody ==
    /\ "main" \in DOMAIN ir.decls
    /\ ir.decls["main"].kind = "Function"
    /\ ~ir.decls["main"].definition.some

\* no State was produced: nothing was allocated, registered or pushed
C9_NoState == memory = <<>> /\ global_map = GlobalMapDefault /\ stack = <<>>

\* C9: once State construction has run, a program with no declaration named
\* main, or whose main is a Variable, has failed with NoMainFunction, and one
\* whose main is a function without a body has failed with
\* NoFunctionDefinition{"main"}; no State is produced and, the run having
\* ended, no step is executed.
C9_ConstructionFails ==
    status # "init" =>
        /\ C9_NoMain =>
             status = "error" /\ result = Some(NoMainFunction) /\ C9_NoState
        /\ C9_MainWithoutBody =>
             /\ status = "error"
             /\ result = Some(NoFunctionDefinition("main"))
             /\ C9_NoState

\* construction has failed on a main declared as a variable
C9_Witness ==
    /\ ir = ProgMainVariable
    /\ status = "error"
    /\ result = Some(NoMainFunction)

-----------------------------------------------------------------------------
(* C10 *)

\* C10: a step at an Unreachable block exit, in any frame at any call depth,
\* fails with the error Unreachable, which is what run returns; no final
\* value is produced.
C10_UnreachableFails ==
    [][NextKind = "Unreachable" =>
         /\ status' = "error"
         /\ result' = Some(Unreachable)
         /\ UNCHANGED <<global_map, stack_frame, stack, memory>>]_vars

\* run has ended with Unreachable two calls below main
C10_Witness ==
    /\ status = "error"
    /\ result = Some(Unreachable)
    /\ Len(stack) = 2

-----------------------------------------------------------------------------
(* C11 *)

\* the places in the list of cases whose constant equals the switch value
C11_Equal ==
    {i \in DOMAIN CurExit.cases :
        interp_constant(CurState, CurExit.cases[i][1]) = Eval(CurExit.value)}

\* the target the Switch is to take: that of the first equal case, or default
C11_Target ==
    IF C11_Equal = {}
    THEN CurExit.default
    ELSE CurExit.cases[CHOOSE i \in C11_Equal : \A j \in C11_Equal : i <= j][2]

\* the Switch about to be executed has a value and constants that evaluate
C11_Case ==
    /\ NextKind = "Switch"
    /\ ~IsAbort(Eval(CurExit.value))
    /\ \A i \in DOMAIN CurExit.cases :
          ~IsAbort(interp_constant(CurState, CurExit.cases[i][1]))

-----------------------------------------------------------------------------
(* C12 *)

\* the Global Map pairs every declared name with one block id and back
C12_Bijection ==
    /\ DOMAIN global_map.var_to_bid = DOMAIN ir.decls
    /\ \A n \in DOMAIN ir.decls :
          /\ get_bid(global_map, n).some
          /\ get_var(global_map, get_bid(global_map, n).v) = Some(n)
    /\ \A b \in DOMAIN global_map.bid_to_var :
          /\ get_var(global_map, b).some
          /\ get_bid(global_map, get_var(global_map, b).v) = Some(b)

\* C12: in every state after State construction the Global Map is a bijection
\* between the declared names and a set of block ids (get_var(get_bid(n)) = n
\* and get_bid(get_var(b)) = b), and no step, be it an instruction, a jump, a
\* call or a return, adds, removes or changes an entry of it.
C12_GlobalMapIsFixedBijection ==
    /\ [](status = "running" => C12_Bijection)
    /\ [][status = "running" => global_map' = global_map]_vars

\* three declarations are registered and a call has been entered
C12_Witness ==
    /\ ir = ProgMemory
    /\ status = "running"
    /\ Len(stack) = 1
    /\ Cardinality(DOMAIN global_map.bid_to_var) = 3
    /\ C12_Bijection

-----------------------------------------------------------------------------
(* C13 *)

\* the Call about to be executed has a callee pointer whose block id is not
\* registered in the Global Map, or is registered for a variable
C13_Case ==
    /\ NextKind = "Call"
    /\ Eval(CurInstr.callee).tag = "Pointer"
    /\ Eval(CurInstr.callee).bid.some
    /\ \/ ~C8_Callee.some
       \/ /\ C8_Callee.v \in DOMAIN ir.decls
          /\ ir.decls[C8_Callee.v].kind = "Variable"

\* C13: a Call whose callee evaluates to a pointer with a block id that is not
\* registered in the Global Map, or that names a global that is no function,
\* ends in a structured error returned to the caller; it does not abort.
C13_CallOfNonFunctionIsError ==
    [][C13_Case => (status' = "error" /\ result'.some)]_vars

-----------------------------------------------------------------------------
(* C14 *)

\* C14: a step yields a final value only at a Return evaluated while the stack
\* of suspended frames is empty, and then the value is the Return's operand
\* evaluated in main's frame; a Return evaluated while the stack is not empty
\* yields no final value. A main whose entry block has no instruction and
\* returns the constant Int{42,32,true} makes run yield Int{42,32,true}.
C14_FinalValueIsMainsReturn ==
    /\ [][/\ status' = "value" =>
               /\ NextKind = "Return"
               /\ stack = <<>>
               /\ stack_frame.func_name = "main"
               /\ result' = Some(Eval(CurExit.value))
          /\ (NextKind = "Return" /\ stack # <<>>) => status' # "value"
          /\ (NextKind = "Return" /\ stack = <<>> /\ ~IsAbort(Eval(CurExit.value))) =>
               status' = "value"]_vars
    /\ []((ir = ProgConst /\ status \notin {"init", "running"}) =>
             (status = "value" /\ result = Some(VInt(42, 32, TRUE))))

\* rec has returned twice into a caller and main has then returned the final
\* value
C14_Witness ==
    /\ ir = ProgRec
    /\ args = <<VInt(2, 8, FALSE)>>
    /\ status = "value"
    /\ result.some
    /\ stack = <<>>

-----------------------------------------------------------------------------
(* C15 *)

\* C15: a jump that completes binds its arguments as a parallel assignment:
\* for every i the target's argument register i holds the value that argument
\* operand i had in the current frame before the jump began, also when an
\* operand is itself one of the target's argument registers.
C15_JumpBindsInParallel ==
    [][(C2_Taken.some /\ C2_WellFormed(C2_Taken.v) /\ status' = "running") =>
         \A i \in DOMAIN C2_Taken.v.args :
            /\ RidArg(C2_Taken.v.bid, i - 1) \in DOMAIN stack_frame'.registers
            /\ stack_frame'.registers[RidArg(C2_Taken.v.bid, i - 1)] =
                   Eval(C2_Taken.v.args[i])]_vars

-----------------------------------------------------------------------------
(* C16 *)

\* the values held in the registers of the current and the suspended frames
C16_InRegisters ==
    {stack_frame.registers[rid] : rid \in DOMAIN stack_frame.registers}
    \cup UNION {{stack[k].registers[rid] : rid \in DOMAIN stack[k].registers} :
                   k \in DOMAIN stack}

\* the values stored in the cells of memory
C16_InMemory ==
    UNION {{memory[b][o] : o \in DOMAIN memory[b]} : b \in DOMAIN memory}

\* the values of the global-variable constants of the declared names
C16_OfGlobals ==
    {interp_constant(CurState, CGlobalVariable(n, DPointer)) : n \in DOMAIN ir.decls}

\* the interpreter was handed no pointer with a block id from outside
C16_OwnPointers ==
    \A i \in DOMAIN args : ~(args[i].tag = "Pointer" /\ args[i].bid.some)

\* C16: in every state of a run that was handed no pointer, every Pointer with
\* a block id held in a register of the current or a suspended frame, stored
\* in a memory cell, or obtained by evaluating a global-variable constant, a
\* reference to a function included, has bid < number of memory blocks and
\* offset < length of block bid.
C16_PointersInBounds ==
    (status \in {"running", "value"} /\ C16_OwnPointers) =>
        \A p \in C16_InRegisters \cup C16_InMemory \cup C16_OfGlobals :
           (p.tag = "Pointer" /\ p.bid.some) => InBounds(memory, p.bid.v, p.offset)

-----------------------------------------------------------------------------
(* C17 *)

\* the Return about to be executed hands a value to the frame on top of the
\* stack
C17_Restores == NextKind = "Return" /\ stack # <<>> /\ status' = "running"

\* C17: the stack of suspended frames is a strict LIFO of frozen frames: a
\* Call pushes the caller's frame, program counter and registers as they were
\* before the Call, on top; a Return with a non-empty stack restores the frame
\* pushed last; and no step changes the program counter, the registers, the
\* function name or the position of a frame that stays suspended.
C17_StackIsFrozenLifo ==
    [][/\ (NextKind = "Call" /\ status' = "running") =>
            /\ Len(stack') = Len(stack) + 1
            /\ stack'[Len(stack')] = stack_frame
       /\ C17_Restores =>
            /\ Len(stack') = Len(stack) - 1
            /\ stack_frame'.func_name = stack[Len(stack)].func_name
            /\ stack_frame'.pc.bid = stack[Len(stack)].pc.bid
            /\ \A rid \in DOMAIN stack[Len(stack)].registers :
                  \/ rid = RidTemp(stack[Len(stack)].pc.bid, stack[Len(stack)].pc.iid)
                  \/ /\ rid \in DOMAIN stack_frame'.registers
                     /\ stack_frame'.registers[rid] = stack[Len(stack)].registers[rid]
       /\ status = "running" =>
            \A k \in DOMAIN stack :
               \/ k \in DOMAIN stack' /\ stack'[k] = stack[k]
               \/ k = Len(stack) /\ C17_Restores]_vars

\* two frames are suspended, main's under rec's, and rec runs a third time
C17_Witness ==
    /\ ir = ProgRec
    /\ status = "running"
    /\ Len(stack) = 2
    /\ stack[1].func_name = "main"
    /\ stack[2].func_name = "rec"
    /\ stack_frame.func_name = "rec"

-----------------------------------------------------------------------------
(* C18 *)

\* the step enters a function whose entry block exists: State::new for main,
\* or a Call that completes
C18_Entered ==
    /\ \/ status = "init"
       \/ NextKind = "Call"
    /\ status' = "running"
    /\ FuncDef(stack_frame'.func_name).bid_init
           \in DOMAIN FuncDef(stack_frame'.func_name).blocks

\* the block ids the local registers of a frame point to
C18_LocalBids(frame) ==
    {frame.registers[rid].bid.v :
        rid \in {r \in DOMAIN frame.registers : r.kind = "local"}}

\* C18: at call entry, the initial call of main included, the new frame's
\* registers are the entry block's argument registers and one local register
\* per allocation of the function; local register id holds Pointer{bid, 0} to
\* a block allocated by this call, different for each id, different from every
\* global's block and from every block the local registers of the suspended
\* frames point to, other activations of the same function included.
C18_ActivationOwnsItsStorage ==
    [][C18_Entered =>
         LET func_def == FuncDef(stack_frame'.func_name)
             entry == func_def.blocks[func_def.bid_init]
             ids == 0..(Len(func_def.allocations) - 1)
             registers == stack_frame'.registers
         IN  /\ DOMAIN registers =
                    {RidArg(func_def.bid_init, i) : i \in 0..(Len(entry.phinodes) - 1)}
                    \cup {RidLocal(id) : id \in ids}
             /\ \A id \in ids :
                   /\ registers[RidLocal(id)].tag = "Pointer"
                   /\ registers[RidLocal(id)].bid.some
                   /\ registers[RidLocal(id)].offset = 0
                   /\ registers[RidLocal(id)].bid.v \in Len(memory)..(Len(memory') - 1)
                   /\ registers[RidLocal(id)].bid.v \notin DOMAIN global_map'.bid_to_var
                   /\ \A k \in DOMAIN stack' :
                         registers[RidLocal(id)].bid.v \notin C18_LocalBids(stack'[k])
             /\ \A id1, id2 \in ids :
                   id1 # id2 =>
                       registers[RidLocal(id1)].bid.v # registers[RidLocal(id2)].bid.v]_vars

\* rec is entered a second time: three activations, two of rec, each with a
\* local of its own
C18_Witness ==
    /\ ir = ProgRec
    /\ status = "running"
    /\ Len(stack) = 2
    /\ stack_frame.func_name = "rec"
    /\ stack_frame.pc = PcNew(0)
    /\ C18_LocalBids(stack_frame) # {}
    /\ C18_LocalBids(stack_frame) \cap C18_LocalBids(stack[2]) = {}

-----------------------------------------------------------------------------
(* C19 *)

\* the step executes an instruction that is no Call, and completes
C19_Case ==
    /\ NextKind \in {"BinOp", "UnaryOp", "Store", "Load", "TypeCast"}
    /\ status' = "running"

\* C19: a step that completes a BinOp, UnaryOp, Store, Load or TypeCast at
\* (b, i) leaves its result in the temp register (b, i), Unit for a Store and
\* the addressed cell for a Load, moves the program counter to (b, i + 1) and
\* leaves the stack, the Global Map, the number of memory blocks and every
\* other register of the frame as they were; only a Store changes a memory
\* cell, and only the cell it addresses.
C19_InstructionFrame ==
    [][C19_Case =>
         /\ stack_frame'.func_name = stack_frame.func_name
         /\ stack_frame'.pc = [bid |-> stack_frame.pc.bid, iid |-> stack_frame.pc.iid + 1]
         /\ DOMAIN stack_frame'.registers = DOMAIN stack_frame.registers \cup {CurTemp}
         /\ \A rid \in DOMAIN stack_frame.registers \ {CurTemp} :
               stack_frame'.registers[rid] = stack_frame.registers[rid]
         /\ NextKind = "Store" => stack_frame'.registers[CurTemp] = VUnit
         /\ NextKind = "Load" =>
               \A c \in C5_Addressed :
                  stack_frame'.registers[CurTemp] = C5_Cell(memory, c)
         /\ stack' = stack
         /\ global_map' = global_map
         /\ Len(memory') = Len(memory)
         /\ \A b \in DOMAIN memory :
               /\ Len(memory'[b]) = Len(memory[b])
               /\ \A o \in DOMAIN memory[b] :
                     \/ memory'[b][o] = memory[b][o]
                     \/ NextKind = "Store" /\ <<b - 1, o - 1>> \in C5_Addressed]_vars

\* f, called from main, has stored its argument in its local: the first cell
\* of main's own local still holds what main stored there
C19_Witness ==
    /\ ir = ProgMemory
    /\ status = "running"
    /\ Len(stack) = 1
    /\ stack_frame.pc = [bid |-> 0, iid |-> 1]
    /\ RidTemp(0, 0) \in DOMAIN stack_frame.registers
    /\ stack_frame.registers[RidTemp(0, 0)] = VUnit
    /\ args[1] # args[2]

-----------------------------------------------------------------------------
(* C20 *)

\* State construction is about to run on a program whose main has a body
C20_Case ==
    /\ status = "init"
    /\ "main" \in DOMAIN ir.decls
    /\ ir.decls["main"].kind = "Function"
    /\ ir.decls["main"].definition.some

\* the value of an initializer constant in the constructed State
C20_Value(constant) ==
    interp_constant(MkState(global_map', stack_frame', stack', memory'), constant)

\* the block registered for the declaration named n is as its declaration
\* says
C20_Block(n) ==
    /\ get_bid(global_map', n).some
    /\ get_bid(global_map', n).v + 1 \in DOMAIN memory'
    /\ \A m \in DOMAIN ir.decls :
          m # n => get_bid(global_map', m) # get_bid(global_map', n)
    /\ ir.decls[n].kind = "Function" =>
          memory'[get_bid(global_map', n).v + 1] = <<>>
    /\ ir.decls[n].kind = "Variable" =>
          memory'[get_bid(global_map', n).v + 1] =
              <<IF ir.decls[n].initializer.some
                THEN C20_Value(ir.decls[n].initializer.v)
                ELSE default_from_dtype(ir.decls[n].dtype)>>

-----------------------------------------------------------------------------
(* C21 *)

\* the step about to be executed returns a structured error
C21_StepFails == status = "running" /\ status' = "error"

\* C21: a step that returns a structured InterpreterError (Unreachable,
\* NoFunctionDefinition, or Misc) leaves the whole execution state as it was
\* before the step: the current frame with its program counter and registers,
\* the stack of suspended frames, the contents and the number of the memory
\* blocks, and the Global Map.
C21_FailedStepChangesNothing ==
    [][C21_StepFails =>
         /\ result'.some
         /\ result'.v.kind \in {"Unreachable", "NoFunctionDefinition", "Misc"}
         /\ stack_frame' = stack_frame
         /\ stack' = stack
         /\ memory' = memory
         /\ global_map' = global_map]_vars

\* a Load through the null pointer has failed with Misc after construction
\* had allocated and bound main's argument
C21_Witness ==
    /\ ir = ProgLoad
    /\ args = <<nullptr>>
    /\ status = "error"
    /\ result.some
    /\ result.v.kind = "Misc"
    /\ memory # <<>>
    /\ stack_frame.registers # EmptyMap

-----------------------------------------------------------------------------
(* C22 *)

\* interp has returned, or has panicked
C22_Ended == status \in {"value", "error", "abort"}

\* C22: for a fixed program and fixed arguments of main, none of them a
\* pointer to a block, the outcome of run, the final Value or the error, is
\* one: whatever order alloc_global_variables visits the declarations in,
\* interp ends as this run has ended, also when the program returns or
\* compares a pointer to a global.
C22_Deterministic ==
    (C22_Ended /\ C16_OwnPointers) =>
        \A order \in DeclOrders(ir.decls) :
           interp(args, order, overflow_checks) = [status |-> status, result |-> result]

=============================================================================
